---- MODULE Spec2Model ----
(***************************************************************************)
(* A model of srim/output.py: the chunked pattern locator                  *)
(* (buffered_findall), the Collision record store built on it              *)
(* (Collision.__init__, __len__, __getitem__) and the per-record parser    *)
(* (Collision._read_ion, Collision._read_cascade).                         *)
(*                                                                         *)
(* Files are sequences of bytes over a small alphabet.  The scan window    *)
(* (4096 in the source) and the store's marker (15 bytes in the source)    *)
(* are scaled down so that window boundaries, straddling occurrences and   *)
(* several records fit in files of a few bytes; the algorithms are         *)
(* modelled parametrically in both.                                        *)
(***************************************************************************)
EXTENDS Integers, Sequences, FiniteSets, TLC

\* ---------------------------------------------------------------- bounds
MaxFile == 6
MaxMarker == 4
MaxWindow == 3
MaxStart == 1

VARIABLES
    caller,      \* who runs: "findall" (a direct call) | "Collision" | "read_ion"
    pc,          \* position of the running operation
    file,        \* the bytes of the file named by filename
    string,      \* buffered_findall's marker argument
    start,       \* buffered_findall's start argument
    BUFFERSIZE,  \* buffered_findall's window (scaled)
    f_tell,      \* f.tell() of buffered_findall's handle
    prev_tell,   \* f.tell() at the end of the previous loop iteration
    positions,   \* buffered_findall's result list
    header,      \* the list Collision._read_header returns
    ion_index,   \* Collision._ion_index
    ret,         \* the last operation called on the store and its outcome
    line,        \* the line the lines generator yielded last
    exhausted,   \* whether the lines generator has run out
    block,       \* the lines pulled since the current collision line, inclusive
    collisions,  \* _read_ion's collisions list
    cascade,     \* _read_cascade's cascade list
    ion_number,  \* _read_ion's ion_number
    footer,      \* _read_ion's footer text, as the doubles it holds
    ion_ret,     \* what _read_ion returned or raised
    bare         \* no line pulled so far ended with a carriage return

lvars == <<file, string, start, BUFFERSIZE, f_tell, prev_tell, positions>>
svars == <<header, ion_index, ret>>
pvars == <<line, exhausted, block, collisions, cascade, ion_number, footer, ion_ret, bare>>
vars == <<caller, pc, lvars, svars, pvars>>

\* ------------------------------------------------------------- sequences
Min(a, b) == IF a < b THEN a ELSE b

SeqsUpTo(S, n) == UNION {[1..k -> S] : k \in 0..n}

\* bytes[lo:hi] of Python: offsets lo..hi-1, both 0-based
Slice(bytes, lo, hi) == SubSeq(bytes, lo + 1, hi)

\* ------------------------------------------------------ buffered_findall
Bytes == {"a", "b"}

\* a locator that does not back up before a read
OverlapNone(s) == 0

\* overlap = len(string) - 1
Overlap(s) == Len(s) - 1

\* re.finditer(string, buffer) for a literal string: the 0-based starts of
\* the leftmost non-overlapping matches, scanning left to right
RECURSIVE finditerFrom(_, _, _)
finditerFrom(s, buffer, i) ==
    IF i + Len(s) > Len(buffer) THEN <<>>
    ELSE IF Slice(buffer, i, i + Len(s)) = s
         THEN <<i>> \o finditerFrom(s, buffer, i + Len(s))
         ELSE finditerFrom(s, buffer, i + 1)

finditer(s, buffer) == finditerFrom(s, buffer, 0)

\* if (f.tell() >= overlap and f.tell() < filesize): f.seek(f.tell() - overlap)
SeekBack(tell, overlap, filesize) ==
    IF tell >= overlap /\ tell < filesize THEN tell - overlap ELSE tell

\* f.read(BUFFERSIZE) at offset pos: at most BUFFERSIZE bytes, none at or
\* beyond end of file
ReadWindow(bytes, pos, size) ==
    IF pos >= Len(bytes) THEN <<>> ELSE Slice(bytes, pos, Min(pos + size, Len(bytes)))

\* positions.append(f.tell() - len(buffer) + position) for every match
Appended(tell, buffer, matches) ==
    [k \in 1..Len(matches) |-> tell - Len(buffer) + matches[k]]

\* the positions list is capped so that a scan that never ends stays finite
MaxPositions == 2 * MaxFile + 2

\* lines 358-366: open the file, set up the locals, seek to start
FindallEnter ==
    /\ pc = "call"
    /\ positions' = <<>>
    /\ f_tell' = (IF start > 0 THEN start ELSE 0)
    /\ prev_tell' = -1
    /\ pc' = "scan"
    /\ UNCHANGED <<caller, file, string, start, BUFFERSIZE, svars, pvars>>

\* one iteration of the while loop, lines 368-379
FindallLoop ==
    /\ pc = "scan"
    /\ LET pos == SeekBack(f_tell, Overlap(string), Len(file))
           buffer == ReadWindow(file, pos, BUFFERSIZE)
           tell == pos + Len(buffer)
       IN  IF buffer # <<>>
           THEN /\ Len(positions) + Len(finditer(string, buffer)) <= MaxPositions
                /\ positions' = positions \o Appended(tell, buffer, finditer(string, buffer))
                /\ f_tell' = tell
                /\ prev_tell' = f_tell
                /\ pc' = "scan"
                /\ UNCHANGED ion_index
           ELSE /\ f_tell' = tell
                /\ prev_tell' = f_tell
                /\ UNCHANGED positions
                /\ IF caller = "Collision"
                   THEN ion_index' = positions /\ pc' = "ready"
                   ELSE UNCHANGED ion_index /\ pc' = "done"
    /\ UNCHANGED <<caller, file, string, start, BUFFERSIZE, header, ret, pvars>>

NoLine == [k |-> "none", cr |-> FALSE, bar |-> <<>>, ws |-> <<>>, int |-> -1, dbl |-> <<>>]

NoIonRet == [kind |-> "none", ion_number |-> -1, matches |-> <<>>, collisions |-> <<>>]

\* the parser's variables while no record is being parsed
ParserIdle ==
    /\ line = NoLine
    /\ exhausted = FALSE
    /\ block = <<>>
    /\ collisions = <<>>
    /\ cascade = <<>>
    /\ ion_number = -1
    /\ footer = <<>>
    /\ ion_ret = NoIonRet
    /\ bare = TRUE

NoRet == [op |-> "none", arg |-> 0, kind |-> "none", value |-> 0, ion_str |-> <<>>]

InitFindall ==
    /\ caller = "findall"
    /\ pc = "call"
    /\ file \in SeqsUpTo(Bytes, MaxFile)
    /\ string \in SeqsUpTo(Bytes, MaxMarker) \ {<<>>}
    /\ start \in 0..MaxStart
    /\ BUFFERSIZE \in 1..MaxWindow
    /\ f_tell = 0
    /\ prev_tell = -1
    /\ positions = <<>>
    /\ header = <<>>
    /\ ion_index = <<>>
    /\ ret = NoRet
    /\ ParserIdle

NextFindall == FindallEnter \/ FindallLoop

Spec == InitFindall /\ [][NextFindall]_vars

\* ---------------------------------------------- independent whole-file scan
\* What the claims compare the locator and the store with: the offsets at
\* which s begins in bytes, found by looking at every offset.
OccSet(bytes, s) ==
    {p \in 0..(Len(bytes) - Len(s)) : Slice(bytes, p, p + Len(s)) = s}

RECURSIVE Ascending(_)
Ascending(S) ==
    IF S = {} THEN <<>>
    ELSE LET m == CHOOSE x \in S : \A y \in S : x <= y
         IN  <<m>> \o Ascending(S \ {m})

Occurrences(bytes, s) == Ascending(OccSet(bytes, s))

\* no two occurrences of s in bytes share a byte
NonOverlapping(bytes, s) ==
    \A p, q \in OccSet(bytes, s) : p < q => p + Len(s) <= q

StrictlyIncreasing(seq) ==
    \A k \in 1..(Len(seq) - 1) : seq[k] < seq[k + 1]

\* ------------------------------------------------------------- Collision
\* the store's files: a space, a line feed and the two bytes of the marker
StoreBytes == {"SP", "LF", "I", "E"}

\* b"  Ion    Energy", scaled to two bytes; like the source's marker it has
\* no proper prefix that is also a suffix
Marker == <<"I", "E">>

MaxStoreFile == 6

\* iterating a text-mode file: the lines, each with its line feed, the last
\* one without when the file does not end with one
RECURSIVE TextLinesFrom(_, _, _)
TextLinesFrom(bytes, i, cur) ==
    IF i > Len(bytes) THEN (IF cur = <<>> THEN <<>> ELSE <<cur>>)
    ELSE IF bytes[i] = "LF"
         THEN <<Append(cur, "LF")>> \o TextLinesFrom(bytes, i + 1, <<>>)
         ELSE TextLinesFrom(bytes, i + 1, Append(cur, bytes[i]))

TextLines(bytes) == TextLinesFrom(bytes, 1, <<>>)

\* the line _read_header stops at: " \n"
HeaderEnd == <<"SP", "LF">>

\* a header reader that also stops at an empty line
RECURSIVE read_header_blank(_)
read_header_blank(lines) ==
    IF lines = <<>> THEN <<>>
    ELSE IF Head(lines) \in {HeaderEnd, <<"LF">>} THEN <<>>
         ELSE <<Head(lines)>> \o read_header_blank(Tail(lines))

\* Collision._read_header: the lines before the first " \n", or all of them
RECURSIVE read_header(_)
read_header(lines) ==
    IF lines = <<>> THEN <<>>
    ELSE IF Head(lines) = HeaderEnd THEN <<>>
         ELSE <<Head(lines)>> \o read_header(Tail(lines))

\* Collision.__init__, lines 191-196 up to the call of buffered_findall
CollisionInit ==
    /\ pc = "init"
    /\ header' = read_header(TextLines(file))
    /\ string' = Marker
    /\ start' = 0
    /\ pc' = "call"
    /\ UNCHANGED <<caller, file, BUFFERSIZE, f_tell, prev_tell, positions, ion_index, ret, pvars>>

\* Collision.__len__
Collision_len(idx) == Len(idx) - 1

\* len(store): Python raises ValueError when __len__ returns a negative
StoreLen ==
    /\ pc = "ready"
    /\ ret' = [op |-> "len", arg |-> 0,
               kind |-> IF Collision_len(ion_index) < 0 THEN "ValueError" ELSE "return",
               value |-> Collision_len(ion_index), ion_str |-> <<>>]
    /\ UNCHANGED <<caller, pc, lvars, header, ion_index, pvars>>

\* list[i] of Python: negative i counts from the end
PyInRange(idx, i) == -Len(idx) <= i /\ i < Len(idx)

PyItem(idx, i) == IF i >= 0 THEN idx[i + 1] ELSE idx[Len(idx) + i + 1]

\* f.seek(pos); f.read(size) on a binary file: size -1 reads to end of file,
\* a smaller size raises ValueError (see getitem)
FileRead(bytes, pos, size) ==
    IF pos >= Len(bytes) THEN <<>>
    ELSE IF size = -1 THEN Slice(bytes, pos, Len(bytes))
         ELSE Slice(bytes, pos, Min(pos + size, Len(bytes)))

Raised(i, kind) ==
    [op |-> "getitem", arg |-> i, kind |-> kind, value |-> -1, ion_str |-> <<>>]

\* Collision.__getitem__ up to the call of _read_ion: the exception raised,
\* or the start offset and the bytes handed to _read_ion
getitem(bytes, idx, i) ==
    IF ~PyInRange(idx, i) THEN Raised(i, "IndexError")
    ELSE IF i # Len(idx) /\ ~PyInRange(idx, i + 1) THEN Raised(i, "IndexError")
    ELSE LET st == PyItem(idx, i)
             end == IF i = Len(idx) THEN Len(bytes) ELSE PyItem(idx, i + 1)
         IN  IF end - st < -1 THEN Raised(i, "ValueError")
             ELSE [op |-> "getitem", arg |-> i, kind |-> "read_ion", value |-> st,
                   ion_str |-> FileRead(bytes, st, end - st)]

\* the indices tried on a store
Indices == -2..(MaxStoreFile \div Len(Marker) + 1)

\* an access that takes the offset out of the index (list.pop for list[])
GetItemPop(i) ==
    /\ pc = "ready"
    /\ ret' = getitem(file, ion_index, i)
    /\ ion_index' = IF PyInRange(ion_index, i)
                    THEN [k \in 1..(Len(ion_index) - 1) |->
                            IF k < (IF i >= 0 THEN i + 1 ELSE Len(ion_index) + i + 1)
                            THEN ion_index[k] ELSE ion_index[k + 1]]
                    ELSE ion_index
    /\ UNCHANGED <<caller, pc, lvars, header, pvars>>

GetItem(i) ==
    /\ pc = "ready"
    /\ ret' = getitem(file, ion_index, i)
    /\ UNCHANGED <<caller, pc, lvars, header, ion_index, pvars>>

InitStore ==
    /\ caller = "Collision"
    /\ pc = "init"
    /\ file \in SeqsUpTo(StoreBytes, MaxStoreFile)
    /\ string = <<>>
    /\ start = 0
    /\ BUFFERSIZE \in Len(Marker)..MaxWindow
    /\ f_tell = 0
    /\ prev_tell = -1
    /\ positions = <<>>
    /\ header = <<>>
    /\ ion_index = <<>>
    /\ ret = NoRet
    /\ ParserIdle

NextStore ==
    \/ CollisionInit
    \/ FindallEnter
    \/ FindallLoop
    \/ StoreLen
    \/ \E i \in Indices : GetItem(i)

StoreSpec == InitStore /\ [][NextStore]_vars

\* ------------------------------------------- _read_ion and _read_cascade
\* The lines of ion_str.split('\n').  A line is what the parser's regular
\* expressions and splits see of it:
\*   k    "dash" / "eq" for a line of '-' / '=' characters only (before an
\*        optional carriage return), else the kind of text it holds
\*   cr   whether the line ends with a carriage return
\*   bar  line.split(chr(179))[1:-1]
\*   ws   line.split()[1:-1]
\*   int  the first integer in the line (-1: none)
\*   dbl  the doubles in the line
\* A token is a number >= 0, or negative when it is not numeric: CascadeStart
\* the "<== Start of New Cascade" field, AtomField a struck-atom field,
\* Word any other text.
CascadeStart == -1
AtomField == -2
Word == -3

MaxEvents == 2
MaxRecoils == 2
MaxFooterLines == 2

\* "³00001³ 10³ 11³ 12³ 13³ 14³ Si ³ 15³ d³"
EventLine(d, cr) ==
    [k |-> "event", cr |-> cr, bar |-> <<1, 10, 11, 12, 13, 14, AtomField, 15, d>>,
     ws |-> <<Word, Word, Word>>, int |-> 1, dbl |-> <<>>]

\* " Summary of Above Cascade ³ Target DISP,VAC,REPLAC,INTER = ³ a³ b³ c³ d³"
SummaryLine(v, cr) ==
    [k |-> "summary", cr |-> cr, bar |-> <<Word, Word>> \o v,
     ws |-> <<Word, Word, Word>>, int |-> v[1], dbl |-> <<>>]

\* "Û 0000r 28 .35E+05 .91E+02 .13E+02 .14E+02 1 0 Û"
RecoilLine(r, cr) ==
    [k |-> "recoil", cr |-> cr, bar |-> <<>>,
     ws |-> <<r, 28, 35, 91, 13, 14, 1, 0>>, int |-> r, dbl |-> <<>>]

\* "  Recoil Atom Energy(eV)   X (A) ... Vac Repl Ion Numb 00001="
CascadeHeaderLine(cr) ==
    [k |-> "cascade_header", cr |-> cr, bar |-> <<>>,
     ws |-> <<Word, Word, Word>>, int |-> 1, dbl |-> <<>>]

\* "-------" and "======="
SeparatorLine(ch, cr) ==
    [k |-> ch, cr |-> cr, bar |-> <<>>, ws |-> <<>>, int |-> -1, dbl |-> <<>>]

\* "  Ion    Energy  Depth ..." and any other text without a number
TextLine(cr) ==
    [k |-> "text", cr |-> cr, bar |-> <<>>, ws |-> <<Word>>, int |-> -1, dbl |-> <<>>]

\* " For Ion 00001"
IonNumberLine(cr) ==
    [k |-> "ion_number", cr |-> cr, bar |-> <<>>, ws |-> <<Word>>, int |-> 1, dbl |-> <<>>]

\* six of the footer's twelve doubles: " n.0  n+1.0 ... n+5.0"
FooterLine(n, cr) ==
    [k |-> "footer", cr |-> cr, bar |-> <<>>, ws |-> <<Word, Word>>, int |-> n,
     dbl |-> [j \in 1..6 |-> n + j - 1]]

LineSet ==
    UNION {
      {SeparatorLine("dash", cr), SeparatorLine("eq", cr), TextLine(cr),
       EventLine(7, cr), EventLine(CascadeStart, cr), CascadeHeaderLine(cr),
       RecoilLine(1, cr), RecoilLine(2, cr),
       SummaryLine(<<2, 3, 4, 5>>, cr), IonNumberLine(cr), FooterLine(20, cr)}
      : cr \in BOOLEAN}

\* a separator that is recognised with or without the carriage return
MatchSeparatorAnyEnding(l, ch) == l.k = ch

\* re.match("^-+\r$", line) and re.match("^=+\r$", line)
MatchSeparator(l, ch) == l.k = ch /\ l.cr

\* re.match(r"\s+<== Start of New Cascade\s+", tokens[-1])
IsCascadeStart(tokens) == tokens[Len(tokens)] = CascadeStart

\* the exception raised by the first of int(tokens[0]), float(tokens[1]), ...,
\* re.search(..., tokens[6]).group(1), float(tokens[7]) that fails
RECURSIVE FieldError(_, _)
FieldError(tokens, j) ==
    IF j > 8 THEN "none"
    ELSE IF j > Len(tokens) THEN "IndexError"
    ELSE IF j = 7 THEN (IF tokens[j] = AtomField THEN FieldError(tokens, j + 1)
                        ELSE "AttributeError")
    ELSE IF tokens[j] < 0 THEN "ValueError"
    ELSE FieldError(tokens, j + 1)

\* the dict appended to collisions, lines 255-269
CollisionDict(tokens, disp, vac, replac, inter, casc) ==
    [ion_number |-> tokens[1], kinetic_energy |-> tokens[2], depth |-> tokens[3],
     lat_y_dist |-> tokens[4], lat_z_dist |-> tokens[5],
     stopping_energy |-> tokens[6], atom |-> tokens[7], recoil_energy |-> tokens[8],
     target_disp |-> disp, target_vac |-> vac, target_replac |-> replac,
     target_inter |-> inter, cascade |-> casc]

\* cascade = None, and a cascade list
NoCascade == [none |-> TRUE, list |-> <<>>]
SomeCascade(list) == [none |-> FALSE, list |-> list]

\* the dict appended to cascade, lines 318-327
RecoilDict(tokens) ==
    [recoil |-> tokens[1], atom |-> tokens[2], recoil_energy |-> tokens[3],
     position |-> <<tokens[4], tokens[5], tokens[6]>>,
     vac |-> tokens[7], repl |-> tokens[8]]

\* the exception raised by lines 319-326 on a recoil line's tokens
RecoilError(tokens) ==
    IF \E j \in 1..8 : j > Len(tokens) \/ tokens[j] < 0
    THEN LET j == CHOOSE j \in 1..8 :
                     /\ j > Len(tokens) \/ tokens[j] < 0
                     /\ \A i \in 1..(j - 1) : i <= Len(tokens) /\ tokens[i] >= 0
         IN  IF j > Len(tokens) THEN "IndexError" ELSE "ValueError"
    ELSE "none"

\* a cascade parser that reads the summary's fields one place to the left
SummaryTargetsShifted(tokens) == <<tokens[2], tokens[3], tokens[4], tokens[5]>>

\* float(tokens[2]), ..., float(tokens[5]) of the summary line, lines 332-335
SummaryTargets(tokens) == <<tokens[3], tokens[4], tokens[5], tokens[6]>>

\* the exception raised by lines 332-335 on the summary line's tokens
SummaryError(tokens) ==
    IF Len(tokens) < 6
    THEN (IF \E j \in 3..Len(tokens) : tokens[j] < 0 THEN "ValueError" ELSE "IndexError")
    ELSE IF \E j \in 3..6 : tokens[j] < 0 THEN "ValueError" ELSE "none"

Raise(kind) ==
    [kind |-> kind, ion_number |-> -1, matches |-> <<>>, collisions |-> <<>>]

\* _read_ion is left, by return or by an exception, after l was pulled: its
\* locals are gone
Leave(result, l) ==
    /\ pc' = "ion_done"
    /\ ion_ret' = result
    /\ line' = l
    /\ block' = <<>>
    /\ collisions' = <<>>
    /\ cascade' = <<>>
    /\ ion_number' = -1
    /\ footer' = <<>>

\* the recoils held by the collisions read so far
RECURSIVE Recoils(_)
Recoils(events) ==
    IF events = <<>> THEN 0
    ELSE Len(Head(events).cascade.list) + Recoils(Tail(events))

\* the frame of a step that pulls line l
Pull(l) ==
    /\ ~exhausted
    /\ bare' = (bare /\ ~l.cr)
    /\ UNCHANGED <<caller, lvars, svars, exhausted>>

\* lines 227-229: skip the ion header
IonSkipHeader(l) ==
    /\ pc = "ion_header"
    /\ Pull(l)
    /\ line' = l
    /\ pc' = IF MatchSeparator(l, "dash") THEN "ion_events" ELSE "ion_header"
    /\ UNCHANGED <<block, collisions, cascade, ion_number, footer, ion_ret>>

\* lines 234-269 for a line that is not the start of a cascade
IonReadCollision(l) ==
    /\ pc = "ion_events"
    /\ Pull(l)
    /\ IF MatchSeparator(l, "eq")
       THEN /\ pc' = "ion_number" /\ line' = l /\ block' = <<>>
            /\ UNCHANGED <<collisions, cascade, ion_number, footer, ion_ret>>
       ELSE IF l.bar = <<>>
       THEN Leave(Raise("IndexError"), l)
       ELSE IF IsCascadeStart(l.bar)
       THEN /\ pc' = "cascade_separator" /\ line' = l /\ block' = <<l>>
            /\ UNCHANGED <<collisions, cascade, ion_number, footer, ion_ret>>
       ELSE IF Len(l.bar) < 9
       THEN Leave(Raise("IndexError"), l)
       ELSE IF l.bar[9] < 0
       THEN Leave(Raise("ValueError"), l)
       ELSE IF FieldError(l.bar, 1) # "none"
       THEN Leave(Raise(FieldError(l.bar, 1)), l)
       ELSE /\ Len(collisions) < MaxEvents
            /\ collisions' = Append(collisions,
                                    CollisionDict(l.bar, l.bar[9], 0, 0, 0, NoCascade))
            /\ pc' = "ion_events" /\ line' = l /\ block' = <<l>>
            /\ UNCHANGED <<cascade, ion_number, footer, ion_ret>>

\* lines 302-304: the line after the cascade start must be an equals separator
CascadeSeparator(l) ==
    /\ pc = "cascade_separator"
    /\ Pull(l)
    /\ IF MatchSeparator(l, "eq")
       THEN /\ pc' = "cascade_header" /\ line' = l /\ block' = Append(block, l)
            /\ UNCHANGED <<collisions, cascade, ion_number, footer, ion_ret>>
       ELSE Leave(Raise("AssertionError"), l)

\* lines 306-312: the cascade table's header, then cascade = []
CascadeHeader(l) ==
    /\ pc = "cascade_header"
    /\ Pull(l)
    /\ IF l.k = "cascade_header"
       THEN /\ pc' = "cascade_recoils" /\ line' = l /\ block' = Append(block, l)
            /\ cascade' = <<>>
            /\ UNCHANGED <<collisions, ion_number, footer, ion_ret>>
       ELSE Leave(Raise("AssertionError"), l)

\* lines 313-327: the recoil lines, up to the equals separator
CascadeRecoil(l) ==
    /\ pc = "cascade_recoils"
    /\ Pull(l)
    /\ IF MatchSeparator(l, "eq")
       THEN /\ pc' = "cascade_summary" /\ line' = l /\ block' = Append(block, l)
            /\ UNCHANGED <<collisions, cascade, ion_number, footer, ion_ret>>
       ELSE IF RecoilError(l.ws) # "none"
       THEN Leave(Raise(RecoilError(l.ws)), l)
       ELSE /\ Recoils(collisions) + Len(cascade) < MaxRecoils
            /\ cascade' = Append(cascade, RecoilDict(l.ws))
            /\ pc' = "cascade_recoils" /\ line' = l /\ block' = Append(block, l)
            /\ UNCHANGED <<collisions, ion_number, footer, ion_ret>>

\* lines 329-337, and lines 243-247 and 255-269 of the caller: the summary
\* line, the return to _read_ion (which ends the life of the local cascade)
\* and the append of the collision
CascadeSummary(l) ==
    /\ pc = "cascade_summary"
    /\ Pull(l)
    /\ IF SummaryError(l.bar) # "none"
       THEN Leave(Raise(SummaryError(l.bar)), l)
       ELSE IF FieldError(block[1].bar, 1) # "none"
       THEN Leave(Raise(FieldError(block[1].bar, 1)), l)
       ELSE /\ Len(collisions) < MaxEvents
            /\ collisions' =
                 Append(collisions,
                        CollisionDict(block[1].bar,
                                      SummaryTargets(l.bar)[1], SummaryTargets(l.bar)[2],
                                      SummaryTargets(l.bar)[3], SummaryTargets(l.bar)[4],
                                      SomeCascade(cascade)))
            /\ cascade' = <<>>
            /\ pc' = "ion_events" /\ line' = l /\ block' = Append(block, l)
            /\ UNCHANGED <<ion_number, footer, ion_ret>>

\* line 272: the ion number, then footer = ""
IonReadNumber(l) ==
    /\ pc = "ion_number"
    /\ Pull(l)
    /\ IF l.int < 0
       THEN Leave(Raise("AttributeError"), l)
       ELSE /\ pc' = "ion_footer" /\ line' = l /\ ion_number' = l.int
            /\ footer' = <<>>
            /\ UNCHANGED <<block, collisions, cascade, ion_ret>>

\* lines 275-278: the footer text, up to the equals separator
IonReadFooter(l) ==
    /\ pc = "ion_footer"
    /\ Pull(l)
    /\ line' = l
    /\ UNCHANGED <<block, collisions, cascade, ion_number, ion_ret>>
    /\ IF MatchSeparator(l, "eq")
       THEN pc' = "ion_last" /\ UNCHANGED footer
       ELSE /\ Len(footer) + Len(l.dbl) <= 6 * MaxFooterLines
            /\ footer' = footer \o l.dbl
            /\ pc' = "ion_footer"

\* lines 280-299: the doubles of the footer, one more line, the record
IonReturn(l) ==
    /\ pc = "ion_last"
    /\ Pull(l)
    /\ IF Len(footer) < 12
       THEN Leave(Raise("IndexError"), l)
       ELSE Leave([kind |-> "return", ion_number |-> ion_number,
                   matches |-> SubSeq(footer, 1, 12), collisions |-> collisions], l)

\* the generator runs out: a for loop ends, next(lines) raises StopIteration
IonExhausted ==
    /\ pc \in {"ion_header", "ion_events", "cascade_separator", "cascade_header",
               "cascade_recoils", "cascade_summary", "ion_number", "ion_footer",
               "ion_last"}
    /\ exhausted' = TRUE
    /\ UNCHANGED <<caller, lvars, svars, bare>>
    /\ IF pc \in {"ion_header", "ion_events", "cascade_recoils", "ion_footer"}
       THEN /\ pc' = CASE pc = "ion_header" -> "ion_events"
                       [] pc = "ion_events" -> "ion_number"
                       [] pc = "cascade_recoils" -> "cascade_summary"
                       [] pc = "ion_footer" -> "ion_last"
            /\ UNCHANGED <<line, block, collisions, cascade, ion_number, footer, ion_ret>>
       ELSE Leave(Raise("StopIteration"), line)

InitIon ==
    /\ caller = "read_ion"
    /\ pc = "ion_header"
    /\ file = <<>>
    /\ string = <<>>
    /\ start = 0
    /\ BUFFERSIZE = 1
    /\ f_tell = 0
    /\ prev_tell = -1
    /\ positions = <<>>
    /\ header = <<>>
    /\ ion_index = <<>>
    /\ ret = NoRet
    /\ ParserIdle

NextIon ==
    \/ \E l \in LineSet :
          \/ IonSkipHeader(l)
          \/ IonReadCollision(l)
          \/ CascadeSeparator(l)
          \/ CascadeHeader(l)
          \/ CascadeRecoil(l)
          \/ CascadeSummary(l)
          \/ IonReadNumber(l)
          \/ IonReadFooter(l)
          \/ IonReturn(l)
    \/ IonExhausted

IonSpec == InitIon /\ [][NextIon]_vars

\* ------------------------------------------------------------ the locator

C7_ForwardProgress ==
    (caller = "findall" /\ start = 0 /\ pc = "scan") => f_tell > prev_tell

\* -------------------------------------------------------------- the store

HasTerminator(bytes) ==
    \E k \in 1..Len(TextLines(bytes)) : TextLines(bytes)[k] = HeaderEnd

\* C2: len(store) equals the number of times the marker appears in the file.
C2_CountIsOccurrences ==
    (ret.op = "len" /\ NonOverlapping(file, Marker))
    => (ret.kind = "return" /\ ret.value = Len(Occurrences(file, Marker)))

\* C3: for every position i of the Record Index, record_at(i) reads from
\* index[i] exactly the bytes up to index[i+1], or up to the end of the file
\* for the last position, instead of failing.
C3_ReadsSpan ==
    (ret.op = "getitem" /\ 0 <= ret.arg /\ ret.arg < Len(ion_index))
    => LET st == ion_index[ret.arg + 1]
           end == IF ret.arg + 1 < Len(ion_index)
                  THEN ion_index[ret.arg + 2] ELSE Len(file)
       IN  /\ ret.kind = "read_ion"
           /\ ret.value = st
           /\ ret.ion_str = Slice(file, st, end)

\* C4: record_at(count) and record_at(-1) fail with IndexError, count being
\* the length the store reports.
C4_OutOfRangeIsIndexError ==
    (ret.op = "getitem" /\ ret.arg \in {-1, Collision_len(ion_index)})
    => ret.kind = "IndexError"

\* C5: a store built from a zero-byte file, or from a file without any
\* ion-block marker, reports a count of 0.
C5_EmptyCountsZero ==
    (ret.op = "len" /\ (file = <<>> \/ OccSet(file, Marker) = {}))
    => (ret.kind = "return" /\ ret.value = 0)

\* C6 as stated: on a file whose header terminator is never found the
\* construction fails, and no store and no Record Index is produced.
C6_NoStoreWithoutTerminator ==
    (caller = "Collision" /\ ~HasTerminator(file)) => pc # "ready"

\* C6 as amended: on a file whose header terminator is never found the
\* construction raises nothing: _read_header returns every line of the
\* file, the construction runs on to the locator, and the store is produced
\* with the marker offsets of the whole file as its Record Index.
C6_StoreWithoutTerminator ==
    (caller = "Collision" /\ ~HasTerminator(file))
    => /\ pc # "init" => header = TextLines(file)
       /\ pc # "ready" => ENABLED (CollisionInit \/ FindallEnter \/ FindallLoop)
       /\ pc = "ready" => ion_index = Occurrences(file, Marker)

\* a store with two records, built from a file with several lines and no
\* header terminator
C6_Witness ==
    /\ caller = "Collision" /\ pc = "ready"
    /\ ~HasTerminator(file)
    /\ Len(TextLines(file)) >= 2
    /\ Len(ion_index) >= 2

\* C10: after construction no record_at call, failed or not, changes the
\* Record Index, the file or what any record_at(j) gives.
C10_AccessChangesNothing ==
    [][pc = "ready" =>
         /\ ion_index' = ion_index
         /\ file' = file
         /\ \A j \in Indices :
               getitem(file', ion_index', j) = getitem(file, ion_index, j)]_vars

\* a failed access on a store where another index reads a record
C10_Witness ==
    /\ pc = "ready"
    /\ ret.op = "getitem" /\ ret.kind = "ValueError"
    /\ getitem(file, ion_index, 0).kind = "read_ion"

\* ------------------------------------------------------------- the parser

\* C8: for a collision line whose last field is the cascade-start marker the
\* cascade parser consumes the equals separator, the cascade header, the
\* recoil lines up to the next equals separator and exactly one summary line;
\* the event's target_disp/vac/replac/inter are the summary line's four
\* values, its cascade is the recoil list in file order, and collision
\* parsing resumes at the line after the summary line.
C8_CascadeAggregation ==
    (caller = "read_ion" /\ pc = "ion_events" /\ Len(block) > 1)
    => LET n == Len(block)
           e == collisions[Len(collisions)]
       IN  /\ n >= 5
           /\ IsCascadeStart(block[1].bar)
           /\ block[2].k = "eq"
           /\ block[3].k = "cascade_header"
           /\ \A j \in 4..(n - 2) : block[j].k = "recoil"
           /\ block[n - 1].k = "eq"
           /\ e.target_disp = block[n].bar[3]
           /\ e.target_vac = block[n].bar[4]
           /\ e.target_replac = block[n].bar[5]
           /\ e.target_inter = block[n].bar[6]
           /\ e.target_disp # block[1].bar[9]
           /\ e.cascade = SomeCascade([j \in 1..(n - 5) |-> RecoilDict(block[j + 3].ws)])
           /\ e.ion_number = block[1].bar[1]
           /\ line = block[n]

\* a second collision with a cascade of two different recoils has just been
\* appended, with the vacancies of its summary line
C8_Witness ==
    /\ caller = "read_ion" /\ pc = "ion_events"
    /\ Len(block) = 7
    /\ block[7].k = "summary"
    /\ Len(collisions) = 2
    /\ collisions[2].target_vac = 3
    /\ Len(collisions[2].cascade.list) = 2
    /\ collisions[2].cascade.list[1].recoil = 2
    /\ collisions[2].cascade.list[2].recoil = 1

\* C9 as stated: a line of '-' (resp. '=') characters only is taken as the
\* separator with or without a trailing carriage return, in every section of
\* the record.
C9_SeparatorWithOrWithoutCR ==
    [][~exhausted' =>
         /\ (pc = "ion_header" /\ line'.k = "dash") => pc' = "ion_events"
         /\ (pc = "ion_events" /\ line'.k = "eq") => pc' = "ion_number"
         /\ (pc = "cascade_separator" /\ line'.k = "eq") => pc' = "cascade_header"
         /\ (pc = "cascade_recoils" /\ line'.k = "eq") => pc' = "cascade_summary"
         /\ (pc = "ion_footer" /\ line'.k = "eq") => pc' = "ion_last"]_vars

\* C9 as amended: a line of '-' (resp. '=') characters only is taken as the
\* separator exactly when it ends with a carriage return.  Without one it is
\* an ordinary line of the section being read: skipped in the ion header,
\* added to the footer text, and an error in the collision list (IndexError),
\* after a cascade start (AssertionError) and in the recoil list
\* (IndexError).  A record whose lines carry no carriage return never leaves
\* the ion header, and _read_ion ends with StopIteration.
C9_SeparatorNeedsCR ==
    [][~exhausted' =>
         LET sep(ch) == line'.k = ch /\ line'.cr
             nocr(ch) == line'.k = ch /\ ~line'.cr
         IN  /\ pc = "ion_header" =>
                  /\ pc' = (IF sep("dash") THEN "ion_events" ELSE "ion_header")
             /\ pc = "ion_events" =>
                  /\ pc' = "ion_number" <=> sep("eq")
                  /\ nocr("eq") => pc' = "ion_done" /\ ion_ret'.kind = "IndexError"
             /\ pc = "cascade_separator" =>
                  /\ pc' = "cascade_header" <=> sep("eq")
                  /\ nocr("eq") => pc' = "ion_done" /\ ion_ret'.kind = "AssertionError"
             /\ pc = "cascade_recoils" =>
                  /\ pc' = "cascade_summary" <=> sep("eq")
                  /\ nocr("eq") => pc' = "ion_done" /\ ion_ret'.kind = "IndexError"
             /\ pc = "ion_footer" =>
                  /\ pc' = "ion_last" <=> sep("eq")
                  /\ nocr("eq") => pc' = "ion_footer"
             /\ bare' => pc' = "ion_header"]_vars
    /\ [][(exhausted' /\ bare') =>
             /\ pc' \in {"ion_events", "ion_number", "ion_done"}
             /\ ion_ret'.kind \in {"none", "StopIteration"}]_vars

\* a record of lines without carriage returns, a line of dashes among them,
\* has ended with StopIteration
C9_Witness ==
    /\ caller = "read_ion" /\ pc = "ion_done"
    /\ bare
    /\ line.k = "dash"
    /\ ion_ret.kind = "StopIteration"

====
